---- MODULE Spec2Model ----
(***************************************************************************)
(* Model of clients/dashboard/client.go: the dashboard client that         *)
(* reconciles a desired sequence of API definitions (apiDefs) against the  *)
(* catalog of a remote dashboard through GET/POST/PUT/DELETE requests.     *)
(*                                                                         *)
(* Spec     : repeated passes of Client.Sync(apiDefs) against a dashboard  *)
(*            whose responses may fail in every way the code tests for.    *)
(* LiveSpec : the same passes against a dashboard that answers every       *)
(*            request with HTTP 200 / "OK", under weak fairness.           *)
(* ApiSpec  : direct calls of Client.CreateAPI and Client.UpdateAPI.       *)
(***************************************************************************)
EXTENDS Integers, Sequences, FiniteSets

VARIABLES
    remote,      \* the dashboard's catalog: a set of DBApiDefinition records
    apiDefs,     \* the desired definitions handed to Sync
    pc,          \* "idle" | "run" (inside Sync, in the apply loops) | "done"
    deleteAPIs,  \* Sync's local slice of hex ids to delete
    updateAPIs,  \* Sync's local slice of definitions to update
    createAPIs,  \* Sync's local slice of definitions to create
    di, ui, ci,  \* positions of the three apply loops (next element)
    err,         \* value returned by the last finished Sync
    prevOk,      \* the pass before the current one returned nil
    log,         \* sub-operations Sync has called in the current pass
    startRemote, \* the catalog when the current pass of Sync was entered
    listed,      \* the answer to the listing GET of the current pass
    call         \* the last direct CreateAPI / UpdateAPI call and its outcome

vars == <<remote, apiDefs, pc, deleteAPIs, updateAPIs, createAPIs,
          di, ui, ci, err, prevOk, log, startRemote, listed, call>>

syncVars == <<apiDefs, pc, deleteAPIs, updateAPIs, createAPIs,
              di, ui, ci, err, prevOk, log, startRemote, listed>>

----------------------------------------------------------------------------
(* Bounds and value domains *)

MaxLen == 2     \* longest desired sequence handed to Sync

MaxCalls == 1   \* direct CreateAPI / UpdateAPI calls in one ApiSpec run

\* bson.ObjectId values; "" is the zero ObjectId of a definition that has
\* not been created yet.
Ids == {"", "a", "b"}

APIIDs == {"", "x"}

Slugs == {"foo", "bar"}

ListenPaths == {"/foo", "/bar"}

\* apidef.APIDefinition, reduced to the fields the client reads.
Defs == [Id : Ids, APIID : APIIDs, Slug : Slugs, ListenPath : ListenPaths]

\* The definitions Sync is exercised with: every Id, in two variants that
\* differ in each of the other keys.
GitDefs ==
    {d \in Defs : \/ d.APIID = "" /\ d.Slug = "foo" /\ d.ListenPath = "/foo"
                  \/ d.APIID = "x" /\ d.Slug = "bar" /\ d.ListenPath = "/bar"}

Nil == "nil"

NoHooks == "null"

\* ObjectId.Hex(): the hexadecimal form of the id's bytes.
Hex(id) ==
    CASE id = ""  -> ""
      [] id = "a" -> "61"
      [] id = "b" -> "62"

\* All enumerations of a finite set as a sequence without repetition
\* (the orders in which Go may range over a map, or a listing may arrive).
Orderings(S) ==
    {s \in [1..Cardinality(S) -> S] : \A i, j \in DOMAIN s : s[i] = s[j] => i = j}

SeqsUpTo(S, n) == UNION {[1..k -> S] : k \in 0..n}

----------------------------------------------------------------------------
(* Errors *)

UseUpdateError == "Object seems to exist (same ID, API ID, Listen Path or Slug), use update()"

UseCreateError == "Object does not exist, use create()"

TransportError == "transport error"

StatusError == "API Returned error"

DecodeError == "json decode error"

EnvelopeError == "API request completed, but with error"

----------------------------------------------------------------------------
(* The dashboard service, as seen through grequests *)

endpointAPIs == "/api/apis"

\* A response to a listing GET: the transport failed, or a status code and
\* a body that is either the catalog listing or not decodable.
ListResponses ==
    {[neterr |-> TRUE, StatusCode |-> 0, body |-> "garbage"]}
    \cup [neterr : {FALSE}, StatusCode : {200, 500}, body : {"apis", "garbage"}]

\* A response to a POST, PUT or DELETE: the transport failed, or a status
\* code and a body that is an APIResponse envelope with Status "OK", an
\* envelope with another Status, or not decodable.
WriteResponses ==
    {[neterr |-> TRUE, StatusCode |-> 0, body |-> "garbage"]}
    \cup [neterr : {FALSE}, StatusCode : {200, 500}, body : {"OK", "error", "garbage"}]

\* The dashboard that answers every request with HTTP 200 and a good body.
GoodListResponses == {[neterr |-> FALSE, StatusCode |-> 200, body |-> "apis"]}

GoodWriteResponses == {[neterr |-> FALSE, StatusCode |-> 200, body |-> "OK"]}

\* The dashboard has carried out a write exactly when it answers HTTP 200
\* with envelope Status "OK".
Accepted(r) == ~r.neterr /\ r.StatusCode = 200 /\ r.body = "OK"

\* POST /api/apis: the new record is stored under the definition's Id.
ServicePost(cat, body) ==
    {r \in cat : r.APIDefinition.Id # body.APIDefinition.Id} \cup {body}

\* PUT /api/apis/<hex>: the record with that id is replaced wholesale.
ServicePut(cat, hexId, body) ==
    IF \E r \in cat : Hex(r.APIDefinition.Id) = hexId
    THEN {r \in cat : Hex(r.APIDefinition.Id) # hexId} \cup {body}
    ELSE cat

\* DELETE /api/apis/<hex>: the record with that id is removed.
ServiceDelete(cat, hexId) == {r \in cat : Hex(r.APIDefinition.Id) # hexId}

\* The decoded listing of a GET answered by lr, in the orders it may
\* arrive in; nothing is decoded from a failed GET.
Listings(lr, cat) ==
    IF lr.neterr \/ lr.StatusCode # 200 \/ lr.body = "garbage"
    THEN {<<>>}
    ELSE Orderings(cat)

\* The answers to the write that follows a GET answered by lr; after a
\* failed GET no write is issued, so one answer stands for all.
Answers(lr, WR) ==
    IF lr.neterr \/ lr.StatusCode # 200 \/ lr.body = "garbage"
    THEN {CHOOSE w \in WR : TRUE}
    ELSE WR

\* No request was issued, so there is no answer.
NoResponse == [neterr |-> FALSE, StatusCode |-> 0, body |-> "none"]

NoRequest == [method |-> "none", path |-> <<>>, body |-> "none"]

----------------------------------------------------------------------------
(* The client *)

DBApiDefinition(def) == [APIDefinition |-> def, HookReferences |-> NoHooks]

fixDBDef(dbdef) ==
    IF dbdef.HookReferences = NoHooks
    THEN [dbdef EXCEPT !.HookReferences = <<>>]
    ELSE dbdef

\* Variant of ListError that does not notice a body that fails to decode.
ListErrorNoDecode(lr) ==
    IF lr.neterr THEN TransportError
    ELSE IF lr.StatusCode # 200 THEN StatusError
    ELSE Nil

\* The error, if any, of fetching and decoding the listing.
ListError(lr) ==
    IF lr.neterr THEN TransportError
    ELSE IF lr.StatusCode # 200 THEN StatusError
    ELSE IF lr.body = "garbage" THEN DecodeError
    ELSE Nil

\* The error, if any, of a POST or PUT answered by wr.
EnvelopeCheck(wr) ==
    IF wr.neterr THEN TransportError
    ELSE IF wr.StatusCode # 200 THEN StatusError
    ELSE IF wr.body = "garbage" THEN DecodeError
    ELSE IF wr.body # "OK" THEN EnvelopeError
    ELSE Nil

\* Variant of CreateCollides that tests the two identifiers only.
CreateCollidesIdsOnly(api, def) ==
    \/ api.APIDefinition.APIID = def.APIID
    \/ api.APIDefinition.Id = def.Id

\* The uniqueness test of CreateAPI's loop body on one listed record.
CreateCollides(api, def) ==
    \/ api.APIDefinition.APIID = def.APIID
    \/ api.APIDefinition.Id = def.Id
    \/ api.APIDefinition.Slug = def.Slug
    \/ api.APIDefinition.ListenPath = api.APIDefinition.ListenPath

\* Client.CreateAPI(def) against catalog cat: lr answers the listing GET
\* (apis is the order the listing arrives in), wr answers the POST.
CreateAPI(def, cat, apis, lr, wr) ==
    LET asDBDef == fixDBDef(DBApiDefinition(def))
        req     == [method |-> "POST", path |-> <<endpointAPIs>>, body |-> asDBDef]
        none    == [err |-> Nil, id |-> "", wrote |-> NoRequest, remote |-> cat, def |-> def]
    IN  IF ListError(lr) # Nil
        THEN [none EXCEPT !.err = ListError(lr)]
        ELSE IF \E i \in DOMAIN apis : CreateCollides(apis[i], def)
        THEN [none EXCEPT !.err = UseUpdateError]
        ELSE [err    |-> EnvelopeCheck(wr),
              id     |-> IF EnvelopeCheck(wr) = Nil THEN Hex(def.Id) ELSE "",
              wrote  |-> req,
              remote |-> IF Accepted(wr) THEN ServicePost(cat, asDBDef) ELSE cat,
              def    |-> def]

\* Variant of UpdateFound that takes the first listed record, whatever its Id.
UpdateFoundAny(apis, def) == IF apis # <<>> THEN 1 ELSE 0

\* The first listed record whose Id equals def.Id, or 0.
UpdateFound(apis, def) ==
    IF \E i \in DOMAIN apis : apis[i].APIDefinition.Id = def.Id
    THEN CHOOSE i \in DOMAIN apis :
            /\ apis[i].APIDefinition.Id = def.Id
            /\ \A j \in 1..(i-1) : apis[j].APIDefinition.Id # def.Id
    ELSE 0

\* Variant of UpdateAPI that takes the APIID of the listed record even when
\* the definition has one.
UpdateAPIOverwrite(def, cat, apis, lr, wr) ==
    LET k       == UpdateFound(apis, def)
        filled  == IF k # 0
                   THEN [def EXCEPT !.APIID = apis[k].APIDefinition.APIID]
                   ELSE def
        asDBDef == fixDBDef(DBApiDefinition(filled))
        req     == [method |-> "PUT", path |-> <<endpointAPIs, Hex(filled.Id)>>,
                    body |-> asDBDef]
        none    == [err |-> Nil, wrote |-> NoRequest, remote |-> cat, def |-> def]
    IN  IF ListError(lr) # Nil
        THEN [none EXCEPT !.err = ListError(lr)]
        ELSE IF k = 0
        THEN [none EXCEPT !.err = UseCreateError]
        ELSE [err    |-> EnvelopeCheck(wr),
              wrote  |-> req,
              remote |-> IF Accepted(wr) THEN ServicePut(cat, Hex(filled.Id), asDBDef) ELSE cat,
              def    |-> filled]

\* Variant of UpdateAPI that sends the definition as given, without the
\* APIID of the listed record.
UpdateAPINoBackfill(def, cat, apis, lr, wr) ==
    LET k       == UpdateFound(apis, def)
        asDBDef == fixDBDef(DBApiDefinition(def))
        req     == [method |-> "PUT", path |-> <<endpointAPIs, Hex(def.Id)>>,
                    body |-> asDBDef]
        none    == [err |-> Nil, wrote |-> NoRequest, remote |-> cat, def |-> def]
    IN  IF ListError(lr) # Nil
        THEN [none EXCEPT !.err = ListError(lr)]
        ELSE IF k = 0
        THEN [none EXCEPT !.err = UseCreateError]
        ELSE [err    |-> EnvelopeCheck(wr),
              wrote  |-> req,
              remote |-> IF Accepted(wr) THEN ServicePut(cat, Hex(def.Id), asDBDef) ELSE cat,
              def    |-> def]

\* Client.UpdateAPI(def): def is passed by pointer, the def field of the
\* result is the caller's definition after the call.
UpdateAPI(def, cat, apis, lr, wr) ==
    LET k       == UpdateFound(apis, def)
        filled  == IF k # 0 /\ def.APIID = ""
                   THEN [def EXCEPT !.APIID = apis[k].APIDefinition.APIID]
                   ELSE def
        asDBDef == fixDBDef(DBApiDefinition(filled))
        req     == [method |-> "PUT", path |-> <<endpointAPIs, Hex(filled.Id)>>,
                    body |-> asDBDef]
        none    == [err |-> Nil, wrote |-> NoRequest, remote |-> cat, def |-> def]
    IN  IF ListError(lr) # Nil
        THEN [none EXCEPT !.err = ListError(lr)]
        ELSE IF k = 0
        THEN [none EXCEPT !.err = UseCreateError]
        ELSE [err    |-> EnvelopeCheck(wr),
              wrote  |-> req,
              remote |-> IF Accepted(wr) THEN ServicePut(cat, Hex(filled.Id), asDBDef) ELSE cat,
              def    |-> filled]

\* Client.deleteAPI(id): only the transport and the status code are tested.
deleteAPI(id, cat, wr) ==
    [err    |-> IF wr.neterr THEN TransportError
                ELSE IF wr.StatusCode # 200 THEN StatusError
                ELSE Nil,
     wrote  |-> [method |-> "DELETE", path |-> <<endpointAPIs, id>>, body |-> "none"],
     remote |-> IF Accepted(wr) THEN ServiceDelete(cat, id) ELSE cat]

----------------------------------------------------------------------------
(* Client.Sync: the diff *)

\* map[string]int from the hex id of each listed record to its index; a
\* later element overwrites an earlier one with the same key.
DashIDMap(apis) ==
    [k \in {Hex(apis[i].APIDefinition.Id) : i \in DOMAIN apis} |->
        CHOOSE i \in DOMAIN apis :
            /\ Hex(apis[i].APIDefinition.Id) = k
            /\ \A j \in DOMAIN apis : Hex(apis[j].APIDefinition.Id) = k => j <= i]

\* Variant of GitIDMap in which the first element with a key stays.
GitIDMapFirst(defs) ==
    [k \in {Hex(defs[i].Id) : i \in DOMAIN defs} |->
        CHOOSE i \in DOMAIN defs :
            /\ Hex(defs[i].Id) = k
            /\ \A j \in DOMAIN defs : Hex(defs[j].Id) = k => j >= i]

GitIDMap(defs) ==
    [k \in {Hex(defs[i].Id) : i \in DOMAIN defs} |->
        CHOOSE i \in DOMAIN defs :
            /\ Hex(defs[i].Id) = k
            /\ \A j \in DOMAIN defs : Hex(defs[j].Id) = k => j <= i]

\* Keys selected by the three range loops over the maps.
UpdateKeys(dash, git) == {key \in DOMAIN git : key \in DOMAIN dash}

\* Variant of DeleteKeys that selects every listed key.
DeleteKeysAll(dash, git) == DOMAIN dash

DeleteKeys(dash, git) == {key \in DOMAIN dash : key \notin DOMAIN git}

\* Variant of CreateKeys that selects every desired key.
CreateKeysAll(dash, git) == DOMAIN git

CreateKeys(dash, git) == {key \in DOMAIN git : key \notin DOMAIN dash}

\* One record of log: the sub-operation and the hex id it is about; the
\* definition it was given and that definition after the call ("none" for
\* a delete); the answers to its listing GET and to its write (NoResponse
\* where there was no request); the error it returned and the mutating
\* request it issued (NoRequest if none).
LogEntry(op, id, arg, after, lr, wr, res) ==
    [op |-> op, id |-> id, arg |-> arg, def |-> after,
     lr |-> lr, resp |-> IF res.wrote.method = "none" THEN NoResponse ELSE wr,
     err |-> res.err, wrote |-> res.wrote]

----------------------------------------------------------------------------
(* Client.Sync: the pass *)

\* Where Sync stands in its three apply loops, which follow one another.
DeletePhase == di <= Len(deleteAPIs)

\* Variant of UpdatePhase that does not wait for the delete loop.
UpdatePhaseEarly == ui <= Len(updateAPIs)

UpdatePhase == di > Len(deleteAPIs) /\ ui <= Len(updateAPIs)

CreatePhase == di > Len(deleteAPIs) /\ ui > Len(updateAPIs) /\ ci <= Len(createAPIs)

\* Entry of Sync up to the first apply loop: fetch the listing, build the
\* two maps and the three slices.  Go ranges over a map in any order.
SyncBegin(LR) ==
    /\ pc \in {"idle", "done"}
    /\ prevOk' = (pc = "done" /\ err = Nil)
    /\ log' = <<>>
    /\ startRemote' = remote
    /\ di' = 1 /\ ui' = 1 /\ ci' = 1
    /\ \E lr \in LR :
          /\ listed' = lr
          /\ IF ListError(lr) # Nil
             THEN /\ pc' = "done"
                  /\ err' = ListError(lr)
                  /\ deleteAPIs' = <<>> /\ updateAPIs' = <<>> /\ createAPIs' = <<>>
             ELSE \E apis \in Listings(lr, remote) :
                  LET dash == DashIDMap(apis)
                      git  == GitIDMap(apiDefs)
                  IN  /\ pc' = "run"
                      /\ err' = Nil
                      /\ \E o \in Orderings(UpdateKeys(dash, git)) :
                            updateAPIs' = [i \in DOMAIN o |-> apiDefs[git[o[i]]]]
                      /\ deleteAPIs' \in Orderings(DeleteKeys(dash, git))
                      /\ \E o \in Orderings(CreateKeys(dash, git)) :
                            createAPIs' = [i \in DOMAIN o |-> apiDefs[git[o[i]]]]
    /\ UNCHANGED <<remote, apiDefs, call>>

\* Variant of SyncAfter that goes on after an error.
SyncAfterIgnore(e) == pc' = "run" /\ err' = err

\* What Sync does with the error a sub-operation returned: return it, or
\* go on with the next element.
SyncAfter(e) ==
    IF e # Nil
    THEN pc' = "done" /\ err' = e
    ELSE pc' = "run" /\ err' = err

\* One iteration of the "Do the deletes" loop.
SyncDelete(WR) ==
    /\ pc = "run"
    /\ DeletePhase
    /\ \E wr \in WR :
          LET res == deleteAPI(deleteAPIs[di], remote, wr)
          IN  /\ remote' = res.remote
              /\ log' = Append(log, LogEntry("delete", deleteAPIs[di], "none", "none", NoResponse, wr, res))
              /\ SyncAfter(res.err)
    /\ di' = di + 1
    /\ UNCHANGED <<apiDefs, deleteAPIs, updateAPIs, createAPIs, ui, ci, prevOk, startRemote, listed, call>>

\* One iteration of the "Do the updates" loop; UpdateAPI gets the address
\* of the loop variable, a copy of the slice element.
SyncUpdate(LR, WR) ==
    /\ pc = "run"
    /\ UpdatePhase
    /\ \E lr \in LR : \E wr \in Answers(lr, WR), apis \in Listings(lr, remote) :
          LET api == updateAPIs[ui]
              res == UpdateAPI(api, remote, apis, lr, wr)
          IN  /\ remote' = res.remote
              /\ log' = Append(log, LogEntry("update", Hex(api.Id), api, res.def, lr, wr, res))
              /\ SyncAfter(res.err)
    /\ ui' = ui + 1
    /\ UNCHANGED <<apiDefs, deleteAPIs, updateAPIs, createAPIs, di, ci, prevOk, startRemote, listed, call>>

\* One iteration of the "Do the creates" loop.
SyncCreate(LR, WR) ==
    /\ pc = "run"
    /\ CreatePhase
    /\ \E lr \in LR : \E wr \in Answers(lr, WR), apis \in Listings(lr, remote) :
          LET api == createAPIs[ci]
              res == CreateAPI(api, remote, apis, lr, wr)
          IN  /\ remote' = res.remote
              /\ log' = Append(log, LogEntry("create", Hex(api.Id), api, res.def, lr, wr, res))
              /\ SyncAfter(res.err)
    /\ ci' = ci + 1
    /\ UNCHANGED <<apiDefs, deleteAPIs, updateAPIs, createAPIs, di, ui, prevOk, startRemote, listed, call>>

\* The final "return nil".
SyncReturn ==
    /\ pc = "run"
    /\ ~DeletePhase /\ ~UpdatePhase /\ ~CreatePhase
    /\ pc' = "done"
    /\ err' = Nil
    /\ UNCHANGED <<remote, apiDefs, deleteAPIs, updateAPIs, createAPIs,
                   di, ui, ci, prevOk, log, startRemote, listed, call>>

----------------------------------------------------------------------------
(* Specifications of Sync *)

DBRecord(def) == [APIDefinition |-> def, HookReferences |-> <<>>]

\* A catalog holds one record per primary identifier, none of them zero.
Catalogs(D) ==
    {c \in SUBSET {DBRecord(d) : d \in {e \in D : e.Id # ""}} :
        \A r, s \in c : r.APIDefinition.Id = s.APIDefinition.Id => r = s}

NoCall == [n |-> 0, op |-> "none", arg |-> "none", def |-> "none", err |-> Nil,
           id |-> "", wrote |-> NoRequest, before |-> {}, lr |-> "none"]

Init ==
    /\ remote \in Catalogs(Defs)
    /\ apiDefs \in SeqsUpTo(GitDefs, MaxLen)
    /\ pc = "idle"
    /\ deleteAPIs = <<>> /\ updateAPIs = <<>> /\ createAPIs = <<>>
    /\ di = 1 /\ ui = 1 /\ ci = 1
    /\ err = Nil
    /\ prevOk = FALSE
    /\ log = <<>>
    /\ startRemote = remote
    /\ listed = NoResponse
    /\ call = NoCall

Next ==
    \/ SyncBegin(ListResponses)
    \/ SyncDelete(WriteResponses)
    \/ SyncUpdate(ListResponses, WriteResponses)
    \/ SyncCreate(ListResponses, WriteResponses)
    \/ SyncReturn

Spec == Init /\ [][Next]_vars

\* The dashboard accepts every request, and the caller runs Sync again
\* after every pass.
GoodNext ==
    \/ SyncBegin(GoodListResponses)
    \/ SyncDelete(GoodWriteResponses)
    \/ SyncUpdate(GoodListResponses, GoodWriteResponses)
    \/ SyncCreate(GoodListResponses, GoodWriteResponses)
    \/ SyncReturn

LiveSpec == Init /\ [][GoodNext]_vars /\ WF_vars(GoodNext)

----------------------------------------------------------------------------
(* Direct use of the exported CreateAPI and UpdateAPI *)

CallCreateAPI(LR, WR) ==
    /\ pc = "idle"
    /\ call.n < MaxCalls
    /\ \E def \in Defs, lr \in LR : \E wr \in Answers(lr, WR), apis \in Listings(lr, remote) :
          LET res == CreateAPI(def, remote, apis, lr, wr)
          IN  /\ remote' = res.remote
              /\ call' = [n |-> call.n + 1, op |-> "CreateAPI", arg |-> def,
                          def |-> res.def, err |-> res.err, id |-> res.id,
                          wrote |-> res.wrote, before |-> remote, lr |-> lr]
    /\ UNCHANGED syncVars

CallUpdateAPI(LR, WR) ==
    /\ pc = "idle"
    /\ call.n < MaxCalls
    /\ \E def \in Defs, lr \in LR : \E wr \in Answers(lr, WR), apis \in Listings(lr, remote) :
          LET res == UpdateAPI(def, remote, apis, lr, wr)
          IN  /\ remote' = res.remote
              /\ call' = [n |-> call.n + 1, op |-> "UpdateAPI", arg |-> def,
                          def |-> res.def, err |-> res.err, id |-> "",
                          wrote |-> res.wrote, before |-> remote, lr |-> lr]
    /\ UNCHANGED syncVars

ApiInit ==
    /\ remote \in Catalogs(Defs)
    /\ apiDefs = <<>>
    /\ pc = "idle"
    /\ deleteAPIs = <<>> /\ updateAPIs = <<>> /\ createAPIs = <<>>
    /\ di = 1 /\ ui = 1 /\ ci = 1
    /\ err = Nil
    /\ prevOk = FALSE
    /\ log = <<>>
    /\ startRemote = remote
    /\ listed = NoResponse
    /\ call = NoCall

ApiNext ==
    \/ CallCreateAPI(ListResponses, WriteResponses)
    \/ CallUpdateAPI(ListResponses, WriteResponses)

ApiSpec == ApiInit /\ [][ApiNext]_vars

----------------------------------------------------------------------------
(* Properties of Sync *)

\* Hex ids of the listing Sync diffed against, and of the desired sequence.
DashIds == {Hex(r.APIDefinition.Id) : r \in startRemote}

GitIds == {Hex(apiDefs[i].Id) : i \in DOMAIN apiDefs}

InSlice(d, slice) == \E i \in DOMAIN slice : slice[i] = d

SliceIds(slice) == {Hex(slice[i].Id) : i \in DOMAIN slice}

Elems(slice) == {slice[i] : i \in DOMAIN slice}

\* Number of sub-operations op among the first n entries of log.
Count(op, n) == Cardinality({i \in 1..n : log[i].op = op})

\* C1: the slices computed by Sync partition the work: every definition of
\* apiDefs is in updateAPIs if its Id is listed and in createAPIs if not,
\* and in no other slice; deleteAPIs is exactly the listed ids that no
\* desired definition has; no id is in two of the three slices.
C1_Partition ==
    pc = "run" =>
        /\ \A i \in DOMAIN apiDefs :
              IF Hex(apiDefs[i].Id) \in DashIds
              THEN InSlice(apiDefs[i], updateAPIs) /\ ~InSlice(apiDefs[i], createAPIs)
              ELSE InSlice(apiDefs[i], createAPIs) /\ ~InSlice(apiDefs[i], updateAPIs)
        /\ Elems(deleteAPIs) = DashIds \ GitIds
        /\ SliceIds(updateAPIs) \cap SliceIds(createAPIs) = {}
        /\ SliceIds(updateAPIs) \cap Elems(deleteAPIs) = {}
        /\ SliceIds(createAPIs) \cap Elems(deleteAPIs) = {}

\* C2: within a pass the requests go out in the order delete, update,
\* create: a PUT is issued only after every element of deleteAPIs has been
\* handled, a POST only after every element of deleteAPIs and of updateAPIs.
C2_PhaseOrder ==
    \A i \in DOMAIN log :
        /\ log[i].wrote.method = "PUT" =>
              Count("delete", i - 1) = Len(deleteAPIs)
        /\ log[i].wrote.method = "POST" =>
              /\ Count("delete", i - 1) = Len(deleteAPIs)
              /\ Count("update", i - 1) = Len(updateAPIs)

\* A pass that issued a DELETE and then a PUT.
C2_Witness ==
    \E i, j \in DOMAIN log :
        i < j /\ log[i].wrote.method = "DELETE" /\ log[j].wrote.method = "PUT"

\* C3: when a sub-operation returns an error, Sync returns that error in
\* the same step without touching the catalog, and calls no sub-operation
\* after it in that pass.
C3_AbortOnFailure ==
    /\ [][(pc = "run" /\ Len(log') = Len(log) + 1 /\ log'[Len(log')].err # Nil)
            => (pc' = "done" /\ err' = log'[Len(log')].err /\ remote' = remote)]_vars
    /\ [](\A i \in DOMAIN log :
            log[i].err # Nil => i = Len(log) /\ pc = "done" /\ err = log[i].err)

\* A pass that changed the catalog, then failed with operations left over.
C3_Witness ==
    /\ pc = "done" /\ err # Nil
    /\ Len(log) >= 2 /\ log[Len(log)].err = err
    /\ remote # startRemote
    /\ Len(log) < Len(deleteAPIs) + Len(updateAPIs) + Len(createAPIs)

\* C4: when Sync returns nil the catalog matches the desired definitions:
\* the stored ids are the desired ids and every stored record holds a
\* desired definition.
C4_ExactMatch ==
    (pc = "done" /\ err = Nil) =>
        /\ {Hex(r.APIDefinition.Id) : r \in remote} = GitIds
        /\ \A r \in remote : \E i \in DOMAIN apiDefs : apiDefs[i] = r.APIDefinition

\* C5: against a dashboard that accepts every request, re-running Sync
\* eventually reaches a pass that returns nil.
C5_EventuallySucceeds == <>(pc = "done" /\ err = Nil)

C7_SecondRunNoChange == (pc = "done" /\ prevOk) => remote = startRemote

----------------------------------------------------------------------------
(* Properties of CreateAPI and UpdateAPI *)

\* The listing of the last direct call was fetched and decoded.
CallListed(op) == call.op = op /\ ListError(call.lr) = Nil

SharesKey(r, def) ==
    \/ r.APIDefinition.Id = def.Id
    \/ r.APIDefinition.APIID = def.APIID
    \/ r.APIDefinition.Slug = def.Slug
    \/ r.APIDefinition.ListenPath = def.ListenPath

\* C8: CreateAPI of a definition that shares Slug, APIID, Id or ListenPath
\* with a listed record returns UseUpdateError and issues no POST, so the
\* catalog stays as it was.
C8_CreateGuard ==
    (CallListed("CreateAPI") /\ \E r \in call.before : SharesKey(r, call.arg)) =>
        /\ call.err = UseUpdateError
        /\ call.wrote.method = "none"
        /\ remote = call.before

\* A CreateAPI whose definition shares only its Slug with a listed record.
C8_Witness ==
    /\ CallListed("CreateAPI")
    /\ call.err = UseUpdateError
    /\ \E r \in call.before :
          /\ r.APIDefinition.Slug = call.arg.Slug
          /\ r.APIDefinition.Id # call.arg.Id
          /\ r.APIDefinition.APIID # call.arg.APIID
          /\ r.APIDefinition.ListenPath # call.arg.ListenPath
    /\ \A r \in call.before :
          /\ r.APIDefinition.Id # call.arg.Id
          /\ r.APIDefinition.APIID # call.arg.APIID
          /\ r.APIDefinition.ListenPath # call.arg.ListenPath

\* C9: CreateAPI of a definition that shares none of the four keys with
\* any listed record does not return UseUpdateError and issues the POST.
C9_CreateWhenAbsent ==
    (CallListed("CreateAPI") /\ \A r \in call.before : ~SharesKey(r, call.arg)) =>
        /\ call.err # UseUpdateError
        /\ call.wrote.method = "POST"

\* C10: UpdateAPI of a definition whose Id no listed record has returns
\* UseCreateError and issues no PUT; otherwise it issues a PUT to the
\* resource path of that Id.
C10_UpdateGuard ==
    CallListed("UpdateAPI") =>
        IF \A r \in call.before : r.APIDefinition.Id # call.arg.Id
        THEN /\ call.err = UseCreateError
             /\ call.wrote.method = "none"
             /\ remote = call.before
        ELSE /\ call.wrote.method = "PUT"
             /\ call.wrote.path = <<endpointAPIs, Hex(call.arg.Id)>>

\* An UpdateAPI against a catalog that holds other records only.
C10_Witness ==
    /\ CallListed("UpdateAPI")
    /\ call.before # {}
    /\ call.err = UseCreateError

\* C11: an UpdateAPI that finds a listed record with the definition's Id
\* sends a payload whose APIID is the record's APIID when the definition's
\* APIID is empty, and the definition's own APIID otherwise.
C11_UpdateBackfill ==
    CallListed("UpdateAPI") =>
        \A r \in call.before :
            r.APIDefinition.Id = call.arg.Id =>
                /\ call.wrote.method = "PUT"
                /\ call.wrote.body.APIDefinition.APIID =
                      IF call.arg.APIID = ""
                      THEN r.APIDefinition.APIID
                      ELSE call.arg.APIID

\* An UpdateAPI of a definition without APIID whose record has one.
C11_Witness ==
    /\ CallListed("UpdateAPI")
    /\ call.arg.APIID = ""
    /\ call.wrote.method = "PUT"
    /\ \E r \in call.before :
          r.APIDefinition.Id = call.arg.Id /\ r.APIDefinition.APIID # ""

----------------------------------------------------------------------------
(* Errors of Sync and of its sub-operations *)

\* C12: Sync returns nil, a transport error, a remote error or
\* UseCreateError, and never UseUpdateError.
C12_SyncErrors ==
    pc = "done" =>
        err \in {Nil, TransportError, StatusError, DecodeError, EnvelopeError,
                 UseCreateError}

\* C13: a sub-operation that issued its DELETE, PUT or POST returns nil
\* only if the answer was HTTP 200 with envelope Status "OK".
C13_SuccessNeedsOK ==
    \A i \in DOMAIN log :
        (log[i].wrote.method # "none" /\ log[i].err = Nil) =>
            /\ ~log[i].resp.neterr
            /\ log[i].resp.StatusCode = 200
            /\ log[i].resp.body = "OK"

----------------------------------------------------------------------------
(* Identity, frame and listing failures *)

\* The element at index i is the last of apiDefs with its Id.
LastWithId(i) ==
    \A j \in DOMAIN apiDefs : Hex(apiDefs[j].Id) = Hex(apiDefs[i].Id) => j <= i

\* The listing GET answered by lr gave no listing.
ListFailed(lr) == lr.neterr \/ lr.StatusCode # 200 \/ lr.body = "garbage"

\* C14: a desired definition whose Id is the Id of a listed record is in
\* the update slice and not in the create slice, whatever its other keys,
\* and the UpdateAPI called for a definition of the update slice finds the
\* record and issues the PUT for its Id.
C14_IdWins ==
    /\ pc = "run" =>
          \A i \in DOMAIN apiDefs :
              (\E r \in startRemote : r.APIDefinition.Id = apiDefs[i].Id) =>
                  /\ InSlice(apiDefs[i], updateAPIs)
                  /\ ~InSlice(apiDefs[i], createAPIs)
    /\ \A k \in DOMAIN log :
          (log[k].op = "update" /\ ~ListFailed(log[k].lr)) =>
              /\ log[k].wrote.method = "PUT"
              /\ log[k].wrote.path = <<endpointAPIs, log[k].id>>

\* C15: Sync never changes apiDefs; the definition handed to UpdateAPI
\* comes back unchanged, or with only its empty APIID replaced by the APIID
\* of the listed record with its Id; the definition handed to CreateAPI
\* comes back unchanged.
C15_Frame ==
    /\ [][apiDefs' = apiDefs]_vars
    /\ [](\A k \in DOMAIN log :
            /\ log[k].op = "create" => log[k].def = log[k].arg
            /\ log[k].op = "update" =>
                  \/ log[k].def = log[k].arg
                  \/ /\ log[k].arg.APIID = ""
                     /\ \E r \in startRemote :
                           /\ r.APIDefinition.Id = log[k].arg.Id
                           /\ log[k].def =
                                 [log[k].arg EXCEPT !.APIID = r.APIDefinition.APIID])

\* An update that filled in the APIID of its copy of the definition.
C15_Witness ==
    \E k \in DOMAIN log :
        /\ log[k].op = "update"
        /\ log[k].def # log[k].arg
        /\ \E i \in DOMAIN apiDefs : apiDefs[i] = log[k].arg

\* C16: when the listing GET fails, Sync returns an error having called no
\* sub-operation, and an UpdateAPI or CreateAPI whose listing GET fails
\* returns an error without issuing its write; the catalog stays as it was.
C16_ListFailure ==
    /\ []((pc # "idle" /\ ListFailed(listed)) =>
            /\ pc = "done"
            /\ err \in {TransportError, StatusError, DecodeError}
            /\ log = <<>>
            /\ remote = startRemote)
    /\ [](\A k \in DOMAIN log :
            (log[k].op \in {"update", "create"} /\ ListFailed(log[k].lr)) =>
                /\ log[k].err \in {TransportError, StatusError, DecodeError}
                /\ log[k].wrote.method = "none")
    /\ [][(/\ Len(log') = Len(log) + 1
           /\ log'[Len(log')].op \in {"update", "create"}
           /\ ListFailed(log'[Len(log')].lr)) => remote' = remote]_vars

\* A pass with work to do whose listing GET could not be decoded.
C16_Witness ==
    /\ pc = "done"
    /\ ~listed.neterr /\ listed.StatusCode = 200 /\ listed.body = "garbage"
    /\ remote # {}
    /\ apiDefs # <<>>

\* C17: the update and create slices hold at most one definition per Id,
\* each the last of apiDefs with its Id, and a pass calls UpdateAPI or
\* CreateAPI at most once per Id.
C17_OnePerId ==
    /\ pc = "run" =>
          LET both == updateAPIs \o createAPIs
          IN  /\ \A i, j \in DOMAIN both :
                    Hex(both[i].Id) = Hex(both[j].Id) => i = j
              /\ \A i \in DOMAIN both :
                    \E k \in DOMAIN apiDefs : LastWithId(k) /\ apiDefs[k] = both[i]
    /\ \A i, j \in DOMAIN log :
          (/\ log[i].op \in {"update", "create"}
           /\ log[j].op \in {"update", "create"}
           /\ log[i].id = log[j].id) => i = j

\* Two different new definitions, both with the zero Id: the second is the
\* one to create.
C17_Witness ==
    /\ pc = "run"
    /\ Len(apiDefs) >= 2
    /\ apiDefs[1].Id = "" /\ apiDefs[2].Id = ""
    /\ apiDefs[1] # apiDefs[2]
    /\ InSlice(apiDefs[2], createAPIs)

\* C18: no UpdateAPI called by Sync returns UseCreateError.
C18_UpdateFinds ==
    \A k \in DOMAIN log : log[k].op = "update" => log[k].err # UseCreateError

\* A delete that the dashboard carried out, followed by a PUT.
C18_Witness ==
    \E i, j \in DOMAIN log :
        /\ i < j
        /\ log[i].op = "delete" /\ Accepted(log[i].resp)
        /\ log[j].op = "update" /\ log[j].wrote.method = "PUT"

====
